---- MODULE Spec2Model ----
(***************************************************************************)
(* Model of src/app.py: the voice interview assistant's session engine.    *)
(*                                                                         *)
(* A Python str is a sequence of one-character strings; " " and "\n" are   *)
(* the whitespace characters str.strip() removes.  The long persona text   *)
(* of SYSTEM_PROMPT is one token between its leading and trailing newline. *)
(* Optional values are records: None, or Some(v).                          *)
(*                                                                         *)
(* The Streamlit script runs top to bottom on every event.  One run is the *)
(* action Rerun up to the speech-to-text call; the two provider calls are  *)
(* the suspension points, so the rest of the round is the actions          *)
(* TranscribeOk / TranscribeFail, BuildPrompt (the call of                 *)
(* build_messages, a step of its own), StreamPiece / StreamFail /          *)
(* StreamEnd and WindowCheck.                                              *)
(***************************************************************************)
EXTENDS Integers, Sequences, FiniteSets, TLC

VARIABLES
    history,                \* st.session_state.history
    resume_text,            \* st.session_state.resume_text
    last_transcript,        \* st.session_state.last_transcript
    last_response,          \* st.session_state.last_response
    cleared_for_this_round, \* st.session_state._cleared_for_this_round
    qa_pairs,               \* st.session_state.qa_pairs
    pdf_ok,                 \* _PDF_OK
    up1, up2,               \* the two file_uploader widgets' values
    transcript_box,         \* the transcript placeholder of this run
    answer_box,             \* the answer placeholder of this run
    pc,                     \* position of the running script
    full_text,              \* local full_text of the round
    messages,               \* local messages of the round
    aliased,                \* whether messages is the list object of history
    stream,                 \* pieces the provider has still to send
    okRounds,               \* history variable: rounds committed so far
    sttFails,               \* history variable: rounds failed at transcription
    genFails,               \* history variable: rounds failed at generation
    dangling,               \* history variable: genFails since the last window reset
    uploads,                \* history variable: runs that saw changed uploads
    passes,                 \* history variable: completed ingest passes over the
                            \*   present uploads, counted up to 2
    before,                 \* history variable: history and qa_pairs when the
                            \*   latest round started
    rec_events,             \* history variable: runs with recording in progress
                            \*   since the latest processing, counted up to 2
    rec_clears,             \* history variable: clears by the recording block
                            \*   since the latest processing, counted up to 2
    stt_calls,              \* history variable: transcription calls of the
                            \*   round in progress
    gen_calls,              \* history variable: chat calls of the round in
                            \*   progress
    heard                   \* history variable: the text the transcription
                            \*   call returned to the round in progress

vars == <<history, resume_text, last_transcript, last_response,
          cleared_for_this_round, qa_pairs, pdf_ok, up1, up2, transcript_box,
          answer_box, pc, full_text, messages, stream, okRounds, sttFails,
          genFails, dangling, uploads, passes, before, aliased, rec_events,
          rec_clears, stt_calls, gen_calls, heard>>

-----------------------------------------------------------------------------
(* Bounds of the explored sessions.                                        *)

\* Spec: long sessions, one question text and one answer text.
MaxRounds == 12
MaxSttFails == 1
MaxGenFails == 3
MaxUploads == 1
\* SpecContent: short sessions, varied questions and answers.
ContentMaxRounds == 3
ContentMaxSttFails == 1
ContentMaxGenFails == 1
ContentMaxUploads == 1
\* SpecIngest: sessions of few rounds, varied documents in both slots.
IngestMaxRounds == 1
IngestMaxUploads == 3
\* SpecClamp: sessions of few rounds over documents around the clamp size.
ClampMaxRounds == 1
ClampMaxUploads == 1

-----------------------------------------------------------------------------
(* Python values.                                                          *)

None == [some |-> FALSE]
Some(v) == [some |-> TRUE, val |-> v]

Whitespace == {" ", "\n"}

RECURSIVE LStrip(_)
LStrip(s) ==
    IF s # <<>> /\ Head(s) \in Whitespace THEN LStrip(Tail(s)) ELSE s

RECURSIVE RStrip(_)
RStrip(s) ==
    IF s # <<>> /\ s[Len(s)] \in Whitespace
    THEN RStrip(SubSeq(s, 1, Len(s) - 1))
    ELSE s

\* str.strip()
Strip(s) == RStrip(LStrip(s))

\* sep.join(parts)
RECURSIVE Join(_, _)
Join(sep, parts) ==
    IF parts = <<>> THEN <<>>
    ELSE IF Len(parts) = 1 THEN parts[1]
    ELSE parts[1] \o sep \o Join(sep, Tail(parts))

-----------------------------------------------------------------------------
(* Program constants.                                                      *)

WINDOW_SIZE == 10
MAX_CHARS == 16000

SYSTEM_PROMPT ==
    <<"\n", "You are role-playing as a human job candidate in a live interview. [...]",
      "\n">>

LABEL_1 ==
   <<"=", "=", "=", " ", "R", "e", "s", "u", "m", "e", " ", "1", " ", "=", "=", "=",
     "\n">>

LABEL_2 ==
   <<"=", "=", "=", " ", "I", "m", "p", "o", "r", "t", "a", "n", "t", " ", "P", "o",
     "i", "n", "t", "s", " ", "t", "o", " ", "R", "e", "m", "e", "m", "b", "e", "r",
     " ", "=", "=", "=", "\n">>

CONTEXT_PREAMBLE ==
   <<"R", "e", "s", "u", "m", "e", " ", "c", "o", "n", "t", "e", "x", "t", " ", "(",
     "v", "e", "r", "b", "a", "t", "i", "m", ";", " ", "u", "s", "e", " ", "a", "s",
     " ", "f", "a", "c", "t", "u", "a", "l", " ", "b", "a", "c", "k", "g", "r", "o",
     "u", "n", "d", ")", ":", "\n">>

\* "\n" + three characters (U+201A, U+00C4, U+00B6 in the file) + "[truncated]"
TRUNCATION_MARKER ==
   <<"\n", "U+201A", "U+00C4", "U+00B6", "[", "t", "r", "u", "n", "c", "a", "t", "e",
     "d", "]">>

JOIN_SEP == <<"\n", "\n">>

NEWLINE == <<"\n">>

-----------------------------------------------------------------------------
(* Documents.  A PDF is readable or not (PdfReader raises on a file that   *)
(* is no PDF); a readable one is a sequence of pages, and a page's         *)
(* extract_text() raises, returns None, or returns a str.                  *)

PageRaises == [raises |-> TRUE, text |-> None]
PageText(t) == [raises |-> FALSE, text |-> Some(t)]
PageNone == [raises |-> FALSE, text |-> None]

Pdf(pages) == [readable |-> TRUE, pages |-> pages]
PdfUnreadable == [readable |-> FALSE, pages |-> <<>>]

\* the loop of extract_pdf_text: parts of the pages that do not raise
RECURSIVE PageParts(_)
PageParts(pages) ==
    IF pages = <<>> THEN <<>>
    ELSE IF Head(pages).raises THEN PageParts(Tail(pages))
    ELSE <<IF Head(pages).text.some THEN Head(pages).text.val ELSE <<>> >>
         \o PageParts(Tail(pages))

\* extract_pdf_text(pdf_bytes), for a readable PDF
extract_pdf_text(ok, pdf) ==
    IF ~ok THEN <<>> ELSE Strip(Join(NEWLINE, PageParts(pdf.pages)))

\* whether extract_pdf_text(pdf_bytes) raises (PdfReader on an unreadable file)
extract_raises(ok, pdf) == ok /\ ~pdf.readable

NoUpload == [present |-> FALSE, pdf |-> PdfUnreadable]
Upload(pdf) == [present |-> TRUE, pdf |-> pdf]

\* lines 152-160: the list combined_resume
combined_resume(ok, u1, u2) ==
    (IF u1.present /\ extract_pdf_text(ok, u1.pdf) # <<>>
     THEN <<LABEL_1 \o extract_pdf_text(ok, u1.pdf)>> ELSE <<>>)
    \o
    (IF u2.present /\ extract_pdf_text(ok, u2.pdf) # <<>>
     THEN <<LABEL_2 \o extract_pdf_text(ok, u2.pdf)>> ELSE <<>>)

\* whether the upload block raises before line 161
upload_raises(ok, u1, u2) ==
    \/ u1.present /\ extract_raises(ok, u1.pdf)
    \/ u2.present /\ extract_raises(ok, u2.pdf)

\* the assignment of line 162 appending to the previous resume_text
ingest_appends(old, ok, u1, u2) ==
    IF combined_resume(ok, u1, u2) # <<>>
    THEN Strip(Join(JOIN_SEP, <<old>> \o combined_resume(ok, u1, u2)))
    ELSE old

\* lines 161-162: the new value of st.session_state.resume_text
ingest(old, ok, u1, u2) ==
    IF combined_resume(ok, u1, u2) # <<>>
    THEN Strip(Join(JOIN_SEP, combined_resume(ok, u1, u2)))
    ELSE old

-----------------------------------------------------------------------------
(* Prompt assembly.                                                        *)

Turn(role, content) == [role |-> role, content |-> content]

\* clamp_text with < for <=
clamp_text_strict(txt, max_chars) ==
    IF Len(txt) < max_chars THEN txt
    ELSE SubSeq(txt, 1, max_chars) \o TRUNCATION_MARKER

\* clamp_text(txt, max_chars)
clamp_text(txt, max_chars) ==
    IF Len(txt) <= max_chars THEN txt
    ELSE SubSeq(txt, 1, max_chars) \o TRUNCATION_MARKER

\* build_messages() appending the context message after the history
build_messages_context_last(hist, resume) ==
    <<Turn("system", Strip(SYSTEM_PROMPT))>>
    \o hist
    \o (IF Strip(resume) # <<>>
        THEN <<Turn("system", CONTEXT_PREAMBLE \o clamp_text(Strip(resume), MAX_CHARS))>>
        ELSE <<>>)

\* build_messages(), reading the session state given as arguments
build_messages(hist, resume) ==
    <<Turn("system", Strip(SYSTEM_PROMPT))>>
    \o (IF Strip(resume) # <<>>
        THEN <<Turn("system", CONTEXT_PREAMBLE \o clamp_text(Strip(resume), MAX_CHARS))>>
        ELSE <<>>)
    \o hist

\* build_messages() starting from the history list itself: msgs is that list
\* and the system messages are inserted into it
build_effect_in_place(hist, resume) ==
    [history |-> build_messages(hist, resume),
     returned |-> build_messages(hist, resume),
     shares_list |-> TRUE]

\* build_messages() reading the history without its latest turn
build_effect_without_last(hist, resume) ==
    [history |-> hist,
     returned |-> build_messages(SubSeq(hist, 1, Len(hist) - 1), resume),
     shares_list |-> FALSE]

\* what a call of build_messages() does: the session's history after it, the
\* list it returns, and whether that list is the history list object (line 121
\* makes a new list, line 128 copies the turns into it)
build_effect(hist, resume) ==
    [history |-> hist,
     returned |-> build_messages(hist, resume),
     shares_list |-> FALSE]

-----------------------------------------------------------------------------
(* Display placeholders and widget values.                                 *)

BoxEmpty == [kind |-> "empty", text |-> <<>>]
BoxWrite(t) == [kind |-> "write", text |-> t]
BoxMarkdown(t) == [kind |-> "markdown", text |-> t]
BoxError(t) == [kind |-> "error", text |-> t]

TRANSCRIPTION_ERROR == <<"Transcription error: ">>
LLM_ERROR == <<"LLM error: ">>

\* values mic_recorder returns: None, or a dict with "recording" and "bytes"
RecNone == [present |-> FALSE, recording |-> FALSE, bytes |-> <<>>]
Rec(recording, bytes) == [present |-> TRUE, recording |-> recording, bytes |-> bytes]

WAV == <<"wav">>

RecValues ==
    {RecNone, Rec(TRUE, <<>>), Rec(FALSE, WAV), Rec(TRUE, WAV), Rec(FALSE, <<>>)}

\* line 247: rec and isinstance(rec, dict) and rec.get("recording", False)
is_recording(rec) == rec.present /\ rec.recording

\* line 252: rec and isinstance(rec, dict) and rec.get("bytes")
has_bytes(rec) == rec.present /\ rec.bytes # <<>>

-----------------------------------------------------------------------------
(* Session state updates of the round.                                     *)

\* line 262
append_user(hist, text) == Append(hist, Turn("user", text))

\* line 273 inserting the answer at the front of the history
append_assistant_first(hist, text) == <<Turn("assistant", text)>> \o hist

\* line 273
append_assistant(hist, text) == Append(hist, Turn("assistant", text))

\* the window check without line 276
window_history_noclear(hist, qa) == hist

\* the window check clearing all but the exchange just committed
window_history_keeps_last(hist, qa) ==
    IF qa >= WINDOW_SIZE THEN SubSeq(hist, Len(hist) - 1, Len(hist)) ELSE hist

\* lines 275-276: history after the window check
window_history(hist, qa) == IF qa >= WINDOW_SIZE THEN <<>> ELSE hist

\* the window check with > for >=
window_qa_pairs_late(qa) == IF qa > WINDOW_SIZE THEN 0 ELSE qa

\* lines 275, 277: qa_pairs after the window check
window_qa_pairs(qa) == IF qa >= WINDOW_SIZE THEN 0 ELSE qa

\* the clears of a run without line 254
clears_output_recording_only(rec, cleared) == is_recording(rec) /\ ~cleared

\* lines 247-250 and 254: whether this run calls clear_visible_output()
clears_output(rec, cleared) == (is_recording(rec) /\ ~cleared) \/ has_bytes(rec)

\* the recording block without line 250
cleared_after_recording_unset(rec, cleared) == cleared

\* lines 247-250: _cleared_for_this_round after the recording block
cleared_after_recording(rec, cleared) == is_recording(rec) \/ cleared

-----------------------------------------------------------------------------
(* Environments: the inputs a specification draws from.                    *)

PdfA == Pdf(<<PageText(<<"a">>), PageRaises, PageText(<<"b", " ">>)>>)
PdfC == Pdf(<<PageText(<<" ", "c">>)>>)
PdfBlank == Pdf(<<PageNone, PageText(<<" ">>), PageRaises>>)

SessionEnv ==
    [maxRounds |-> MaxRounds, maxSttFails |-> MaxSttFails,
     maxGenFails |-> MaxGenFails, maxUploads |-> MaxUploads,
     pdfOk |-> {TRUE},
     pdfs1 |-> {PdfA, PdfUnreadable}, pdfs2 |-> {},
     transcripts |-> {<<"q">>, <<" ", "q", "\n">>},
     streams |-> {<< <<" ", "a">>, <<"\n">> >>}]

ContentEnv ==
    [maxRounds |-> ContentMaxRounds, maxSttFails |-> ContentMaxSttFails,
     maxGenFails |-> ContentMaxGenFails, maxUploads |-> ContentMaxUploads,
     pdfOk |-> {TRUE},
     pdfs1 |-> {PdfA, PdfUnreadable}, pdfs2 |-> {PdfC},
     transcripts |-> {<<"q">>, <<" ", "r", "\n">>},
     streams |-> {<<>>, << <<" ", "b">>, <<"\n">> >>}]

IngestEnv ==
    [maxRounds |-> IngestMaxRounds, maxSttFails |-> ContentMaxSttFails,
     maxGenFails |-> ContentMaxGenFails, maxUploads |-> IngestMaxUploads,
     pdfOk |-> BOOLEAN,
     pdfs1 |-> {PdfA, PdfBlank, PdfUnreadable},
     pdfs2 |-> {PdfA, PdfC, PdfBlank},
     transcripts |-> {<<" ", "q", "\n">>},
     streams |-> {<< <<" ", "a">>, <<"\n">> >>}]

\* a one-page PDF whose text is n characters
PdfOfLength(n) == Pdf(<<PageText([i \in 1..n |-> "x"])>>)

\* a short PDF whose own text ends with the characters of the truncation marker
PdfMarked == Pdf(<<PageText(<<"x">> \o TRUNCATION_MARKER)>>)

\* documents that make resume_text one character under MAX_CHARS, exactly
\* MAX_CHARS, one character over, and well over
ClampEnv ==
    [maxRounds |-> ClampMaxRounds, maxSttFails |-> ContentMaxSttFails,
     maxGenFails |-> ContentMaxGenFails, maxUploads |-> ClampMaxUploads,
     pdfOk |-> {TRUE},
     pdfs1 |-> {PdfOfLength(MAX_CHARS - Len(LABEL_1) - 1),
                PdfOfLength(MAX_CHARS - Len(LABEL_1)),
                PdfOfLength(MAX_CHARS - Len(LABEL_1) + 1),
                PdfOfLength(MAX_CHARS + Len(TRUNCATION_MARKER)),
                PdfMarked, PdfUnreadable},
     pdfs2 |-> {PdfC},
     transcripts |-> {<<" ", "q", "\n">>},
     streams |-> {<< <<" ", "a">>, <<"\n">> >>}]

-----------------------------------------------------------------------------
(* The state after init_state(), with no upload and nothing recorded.      *)

Init(E) ==
    /\ history = <<>>
    /\ resume_text = <<>>
    /\ last_transcript = None
    /\ last_response = None
    /\ cleared_for_this_round = FALSE
    /\ qa_pairs = 0
    /\ pdf_ok \in E.pdfOk
    /\ up1 = NoUpload
    /\ up2 = NoUpload
    /\ transcript_box = BoxEmpty
    /\ answer_box = BoxEmpty
    /\ pc = "idle"
    /\ full_text = <<>>
    /\ messages = <<>>
    /\ aliased = FALSE
    /\ rec_events = 0
    /\ rec_clears = 0
    /\ stt_calls = 0
    /\ gen_calls = 0
    /\ heard = None
    /\ stream = <<>>
    /\ okRounds = 0
    /\ sttFails = 0
    /\ genFails = 0
    /\ dangling = 0
    /\ uploads = 0
    /\ passes = 0
    /\ before = [history |-> <<>>, qa_pairs |-> 0]

-----------------------------------------------------------------------------
(* One run of the script, lines 146-254: the upload block, the recording   *)
(* block, and the start of the processing block up to the transcription    *)
(* call.  u1, u2 and rec are the widget values of this run.                *)

RunAborted(u1, u2) ==
    \* extract_pdf_text raises at line 154 or 158: the run ends there
    /\ upload_raises(pdf_ok, u1, u2)
    /\ pc' = "idle"
    /\ passes' = IF <<u1, u2>> # <<up1, up2>> THEN 0 ELSE passes
    /\ UNCHANGED <<history, resume_text, last_transcript, last_response,
                   cleared_for_this_round, qa_pairs, before, rec_events,
                   rec_clears, stt_calls>>

RunCompleted(E, u1, u2, rec) ==
    /\ ~upload_raises(pdf_ok, u1, u2)
    /\ has_bytes(rec) => okRounds + sttFails + genFails < E.maxRounds
    /\ resume_text' = ingest(resume_text, pdf_ok, u1, u2)
    /\ last_transcript' =
           IF clears_output(rec, cleared_for_this_round) THEN None
           ELSE last_transcript
    /\ last_response' =
           IF clears_output(rec, cleared_for_this_round) THEN None
           ELSE last_response
    /\ cleared_for_this_round' = cleared_after_recording(rec, cleared_for_this_round)
    /\ pc' = IF has_bytes(rec) THEN "stt" ELSE "idle"
    /\ passes' = IF <<u1, u2>> # <<up1, up2>> THEN 1
                  ELSE IF passes = 0 THEN 1 ELSE 2
    /\ before' = IF has_bytes(rec)
                  THEN [history |-> history, qa_pairs |-> qa_pairs]
                  ELSE before
    /\ rec_events' = IF is_recording(rec) /\ rec_events < 2
                      THEN rec_events + 1 ELSE rec_events
    /\ rec_clears' = IF is_recording(rec) /\ ~cleared_for_this_round
                         /\ rec_clears < 2
                      THEN rec_clears + 1 ELSE rec_clears
    /\ stt_calls' = IF has_bytes(rec) THEN stt_calls + 1 ELSE stt_calls
    /\ UNCHANGED <<history, qa_pairs>>

Rerun(E, u1, u2, rec) ==
    /\ pc = "idle"
    /\ <<u1, u2>> # <<up1, up2>> => uploads < E.maxUploads
    /\ up1' = u1
    /\ up2' = u2
    /\ uploads' = IF <<u1, u2>> # <<up1, up2>> THEN uploads + 1 ELSE uploads
    /\ transcript_box' = BoxEmpty
    /\ answer_box' = BoxEmpty
    /\ \/ RunAborted(u1, u2)
       \/ RunCompleted(E, u1, u2, rec)
    /\ UNCHANGED <<pdf_ok, full_text, messages, aliased, stream, okRounds,
                   sttFails, genFails, dangling, gen_calls, heard>>

(* Lines 256-263: the transcription returned t.                            *)
TranscribeOk(E, t) ==
    /\ pc = "stt"
    /\ last_transcript' = Some(Strip(t))
    /\ transcript_box' = BoxWrite(Strip(t))
    /\ history' = append_user(history, Strip(t))
    /\ heard' = Some(t)
    /\ full_text' = <<>>
    /\ pc' = "build"
    /\ UNCHANGED <<resume_text, last_response, cleared_for_this_round, qa_pairs,
                   pdf_ok, up1, up2, answer_box, messages, aliased, stream,
                   okRounds, sttFails, genFails, dangling, uploads, passes, before,
                   rec_events, rec_clears, stt_calls, gen_calls>>

(* Lines 265-266: build_messages() and the call of groq_chat_stream, whose *)
(* stream is pieces.                                                       *)
BuildPrompt(pieces) ==
    /\ pc = "build"
    /\ history' = build_effect(history, resume_text).history
    /\ messages' = build_effect(history, resume_text).returned
    /\ aliased' = build_effect(history, resume_text).shares_list
    /\ stream' = pieces
    /\ gen_calls' = gen_calls + 1
    /\ pc' = "stream"
    /\ UNCHANGED <<resume_text, last_transcript, last_response,
                   cleared_for_this_round, qa_pairs, pdf_ok, up1, up2,
                   transcript_box, answer_box, full_text, okRounds, sttFails,
                   genFails, dangling, uploads, passes, before,
                   rec_events, rec_clears, stt_calls, heard>>

(* The except branch of the transcription calling the provider again.      *)
TranscribeFail_retries(E) ==
    /\ pc = "stt"
    /\ sttFails < E.maxSttFails
    /\ answer_box' = BoxError(TRANSCRIPTION_ERROR)
    /\ stt_calls' = stt_calls + 1
    /\ sttFails' = sttFails + 1
    /\ UNCHANGED <<history, resume_text, last_transcript, last_response,
                   cleared_for_this_round, qa_pairs, pdf_ok, up1, up2,
                   transcript_box, pc, full_text, messages, stream, okRounds,
                   genFails, dangling, uploads, passes, before, aliased,
                   rec_events, rec_clears, gen_calls, heard>>

(* The except branch of the transcription also appending a user turn.      *)
TranscribeFail_appends(E) ==
    /\ pc = "stt"
    /\ sttFails < E.maxSttFails
    /\ answer_box' = BoxError(TRANSCRIPTION_ERROR)
    /\ history' = append_user(history, <<>>)
    /\ cleared_for_this_round' = FALSE
    /\ rec_events' = 0
    /\ rec_clears' = 0
    /\ stt_calls' = 0
    /\ gen_calls' = 0
    /\ heard' = None
    /\ pc' = "idle"
    /\ sttFails' = sttFails + 1
    /\ UNCHANGED <<resume_text, last_transcript, last_response, qa_pairs,
                   pdf_ok, up1, up2, transcript_box, full_text, messages, stream,
                   okRounds, genFails, dangling, uploads, passes, before, aliased>>

(* Lines 259-260 and 278: the transcription call raised.                   *)
TranscribeFail(E) ==
    /\ pc = "stt"
    /\ sttFails < E.maxSttFails
    /\ answer_box' = BoxError(TRANSCRIPTION_ERROR)
    /\ cleared_for_this_round' = FALSE
    /\ rec_events' = 0
    /\ rec_clears' = 0
    /\ stt_calls' = 0
    /\ gen_calls' = 0
    /\ heard' = None
    /\ pc' = "idle"
    /\ sttFails' = sttFails + 1
    /\ UNCHANGED <<history, resume_text, last_transcript, last_response, qa_pairs,
                   pdf_ok, up1, up2, transcript_box, full_text, messages, stream,
                   okRounds, genFails, dangling, uploads, passes,
                   before, aliased>>

(* Lines 266-268: the stream yielded a piece.                              *)
StreamPiece ==
    /\ pc = "stream"
    /\ stream # <<>>
    /\ full_text' = full_text \o Head(stream)
    /\ answer_box' = BoxMarkdown(full_text')
    /\ stream' = Tail(stream)
    /\ UNCHANGED <<history, resume_text, last_transcript, last_response,
                   cleared_for_this_round, qa_pairs, pdf_ok, up1, up2,
                   transcript_box, pc, messages, okRounds, sttFails, genFails,
                   dangling, uploads, passes,
                   before, aliased,
                   rec_events, rec_clears, stt_calls, gen_calls, heard>>

(* The except branch of the generation also counting the round.            *)
StreamFail_counts(E) ==
    /\ pc = "stream"
    /\ genFails < E.maxGenFails
    /\ answer_box' = BoxError(LLM_ERROR)
    /\ cleared_for_this_round' = FALSE
    /\ rec_events' = 0
    /\ rec_clears' = 0
    /\ stt_calls' = 0
    /\ gen_calls' = 0
    /\ heard' = None
    /\ qa_pairs' = qa_pairs + 1
    /\ pc' = "idle"
    /\ full_text' = <<>>
    /\ messages' = <<>>
    /\ aliased' = FALSE
    /\ stream' = <<>>
    /\ genFails' = genFails + 1
    /\ dangling' = dangling + 1
    /\ UNCHANGED <<history, resume_text, last_transcript, last_response,
                   pdf_ok, up1, up2, transcript_box, okRounds, sttFails, uploads, passes,
                   before>>

(* The except branch of the generation also committing the partial text.   *)
StreamFail_commits_partial(E) ==
    /\ pc = "stream"
    /\ genFails < E.maxGenFails
    /\ answer_box' = BoxError(LLM_ERROR)
    /\ history' = append_assistant(history, Strip(full_text))
    /\ cleared_for_this_round' = FALSE
    /\ rec_events' = 0
    /\ rec_clears' = 0
    /\ stt_calls' = 0
    /\ gen_calls' = 0
    /\ heard' = None
    /\ pc' = "idle"
    /\ full_text' = <<>>
    /\ messages' = <<>>
    /\ aliased' = FALSE
    /\ stream' = <<>>
    /\ genFails' = genFails + 1
    /\ dangling' = dangling + 1
    /\ UNCHANGED <<resume_text, last_transcript, last_response, qa_pairs,
                   pdf_ok, up1, up2, transcript_box, okRounds, sttFails, uploads,
                   passes, before>>

(* Lines 269-270 and 278: the chat call or the stream raised.              *)
StreamFail(E) ==
    /\ pc = "stream"
    /\ genFails < E.maxGenFails
    /\ answer_box' = BoxError(LLM_ERROR)
    /\ cleared_for_this_round' = FALSE
    /\ rec_events' = 0
    /\ rec_clears' = 0
    /\ stt_calls' = 0
    /\ gen_calls' = 0
    /\ heard' = None
    /\ pc' = "idle"
    /\ full_text' = <<>>
    /\ messages' = <<>>
    /\ aliased' = FALSE
    /\ stream' = <<>>
    /\ genFails' = genFails + 1
    /\ dangling' = dangling + 1
    /\ UNCHANGED <<history, resume_text, last_transcript, last_response, qa_pairs,
                   pdf_ok, up1, up2, transcript_box, okRounds, sttFails, uploads, passes,
                   before>>

(* Lines 271-274: the stream ended.                                        *)
StreamEnd ==
    /\ pc = "stream"
    /\ stream = <<>>
    /\ last_response' = Some(Strip(full_text))
    /\ history' = append_assistant(history, Strip(full_text))
    /\ qa_pairs' = qa_pairs + 1
    /\ pc' = "window"
    /\ UNCHANGED <<resume_text, last_transcript, cleared_for_this_round, pdf_ok,
                   up1, up2, transcript_box, answer_box, full_text, messages,
                   stream, okRounds, sttFails, genFails, dangling, uploads, passes,
                   before, aliased,
                   rec_events, rec_clears, stt_calls, gen_calls, heard>>

(* The window check also clearing resume_text with the history.            *)
WindowCheck_clears_context ==
    /\ pc = "window"
    /\ history' = window_history(history, qa_pairs)
    /\ qa_pairs' = window_qa_pairs(qa_pairs)
    /\ resume_text' = IF qa_pairs >= WINDOW_SIZE THEN <<>> ELSE resume_text
    /\ dangling' = IF qa_pairs >= WINDOW_SIZE THEN 0 ELSE dangling
    /\ cleared_for_this_round' = FALSE
    /\ rec_events' = 0
    /\ rec_clears' = 0
    /\ stt_calls' = 0
    /\ gen_calls' = 0
    /\ heard' = None
    /\ pc' = "idle"
    /\ full_text' = <<>>
    /\ messages' = <<>>
    /\ aliased' = FALSE
    /\ okRounds' = okRounds + 1
    /\ UNCHANGED <<last_transcript, last_response, pdf_ok, up1, up2,
                   transcript_box, answer_box, stream, sttFails, genFails, uploads,
                   passes, before>>

(* Lines 275-278: the window check and the end of the round.               *)
WindowCheck ==
    /\ pc = "window"
    /\ history' = window_history(history, qa_pairs)
    /\ qa_pairs' = window_qa_pairs(qa_pairs)
    /\ dangling' = IF qa_pairs >= WINDOW_SIZE THEN 0 ELSE dangling
    /\ cleared_for_this_round' = FALSE
    /\ rec_events' = 0
    /\ rec_clears' = 0
    /\ stt_calls' = 0
    /\ gen_calls' = 0
    /\ heard' = None
    /\ pc' = "idle"
    /\ full_text' = <<>>
    /\ messages' = <<>>
    /\ aliased' = FALSE
    /\ okRounds' = okRounds + 1
    /\ UNCHANGED <<resume_text, last_transcript, last_response, pdf_ok, up1, up2,
                   transcript_box, answer_box, stream, sttFails, genFails, uploads, passes,
                   before>>

UploadValues(pdfs) == {NoUpload} \cup {Upload(p) : p \in pdfs}

Next(E) ==
    \/ \E u1 \in UploadValues(E.pdfs1), u2 \in UploadValues(E.pdfs2), rec \in RecValues :
           Rerun(E, u1, u2, rec)
    \/ \E t \in E.transcripts : TranscribeOk(E, t)
    \/ \E pieces \in E.streams : BuildPrompt(pieces)
    \/ TranscribeFail(E)
    \/ StreamPiece
    \/ StreamFail(E)
    \/ StreamEnd
    \/ WindowCheck

(* Spec: long sessions (window resets, repeated failures) over one question  *)
(* and one answer text.  SpecContent: short sessions over differing          *)
(* questions and answers.  SpecIngest: differing documents in both slots.    *)
InitSession == Init(SessionEnv)
NextSession == Next(SessionEnv)
Spec == InitSession /\ [][NextSession]_vars

InitContent == Init(ContentEnv)
NextContent == Next(ContentEnv)
SpecContent == InitContent /\ [][NextContent]_vars

InitIngest == Init(IngestEnv)
NextIngest == Next(IngestEnv)
SpecIngest == InitIngest /\ [][NextIngest]_vars

(* SpecLive: SpecContent with the steps of a round in progress taken        *)
(* eventually: every provider call returns or raises, and the answer stream *)
(* ends.                                                                    *)
RoundStep(E) ==
    \/ \E t \in E.transcripts : TranscribeOk(E, t)
    \/ \E pieces \in E.streams : BuildPrompt(pieces)
    \/ TranscribeFail(E)
    \/ StreamPiece
    \/ StreamFail(E)
    \/ StreamEnd
    \/ WindowCheck

SpecLive == InitContent /\ [][NextContent]_vars /\ WF_vars(RoundStep(ContentEnv))

(* SpecClamp: documents whose text is around the clamp size.                *)
InitClamp == Init(ClampEnv)
NextClamp == Next(ClampEnv)
SpecClamp == InitClamp /\ [][NextClamp]_vars

-----------------------------------------------------------------------------
(* Properties.                                                             *)

NoFailureYet == sttFails = 0 /\ genFails = 0

\* C1: while every round so far succeeded, between rounds history holds two
\* turns per counted exchange, and both are back at zero after each 10th commit.
C1_TwoTurnsPerExchange ==
    (pc = "idle" /\ NoFailureYet) =>
        /\ Len(history) = 2 * qa_pairs
        /\ okRounds % WINDOW_SIZE = 0 => (history = <<>> /\ qa_pairs = 0)

C1_Witness ==
    /\ pc = "idle" /\ NoFailureYet
    /\ okRounds = WINDOW_SIZE + 1
    /\ Len(history) = 2 /\ qa_pairs = 1

\* C2: from the empty session, after k successful rounds history holds 2k turns
\* for k = 1..9 and is empty, with the counter 0, after the 10th; the 10th
\* exchange is appended before the reset of the same commit and is in history in
\* no state between rounds.
C2_TenthCommitResets ==
    NoFailureYet =>
        /\ (pc = "idle" /\ okRounds <= WINDOW_SIZE) =>
               /\ Len(history) = 2 * (okRounds % WINDOW_SIZE)
               /\ qa_pairs = okRounds % WINDOW_SIZE
        /\ (pc = "window" /\ okRounds = WINDOW_SIZE - 1) =>
               /\ qa_pairs = WINDOW_SIZE
               /\ Len(history) = 2 * WINDOW_SIZE
               /\ history[2 * WINDOW_SIZE - 1].role = "user"
               /\ history[2 * WINDOW_SIZE].role = "assistant"
        /\ pc = "idle" => Len(history) < 2 * WINDOW_SIZE

C2_Witness ==
    /\ pc = "idle" /\ NoFailureYet
    /\ okRounds = WINDOW_SIZE
    /\ history = <<>> /\ qa_pairs = 0
    /\ last_response # None

\* C3: in every reachable state history holds at most 2 * WINDOW_SIZE turns.
C3_HistoryBounded == Len(history) <= 2 * WINDOW_SIZE

\* C4: qa_pairs stays within 0..WINDOW_SIZE, is at most WINDOW_SIZE - 1 between
\* rounds, and a step changes it only by +1 at a commit or to 0 from WINDOW_SIZE.
C4_CounterRange ==
    [][/\ qa_pairs \in 0..WINDOW_SIZE
       /\ qa_pairs' \in 0..WINDOW_SIZE
       /\ pc = "idle" => qa_pairs <= WINDOW_SIZE - 1
       /\ pc' = "idle" => qa_pairs' <= WINDOW_SIZE - 1
       /\ \/ qa_pairs' = qa_pairs
          \/ qa_pairs' = qa_pairs + 1 /\ pc = "stream" /\ pc' = "window"
                /\ okRounds' = okRounds /\ Len(history') = Len(history) + 1
          \/ qa_pairs' = 0 /\ qa_pairs = WINDOW_SIZE /\ pc = "window"]_vars

C4_Witness == pc = "window" /\ qa_pairs = WINDOW_SIZE /\ genFails > 0 /\ sttFails > 0

\* C5: a round whose transcription raises ends there: history and qa_pairs are
\* what they were when the round started, no turn is appended, no prompt is built
\* and no stream opened, and the error is shown in the answer box.
C5_TranscriptionFailure ==
    [][sttFails' # sttFails =>
          /\ pc = "stt" /\ pc' = "idle"
          /\ history' = history /\ history' = before.history
          /\ qa_pairs' = qa_pairs /\ qa_pairs' = before.qa_pairs
          /\ messages' = <<>> /\ stream' = <<>> /\ full_text' = <<>>
          /\ last_transcript' = None /\ last_response' = None
          /\ answer_box' = BoxError(TRANSCRIPTION_ERROR)
          /\ cleared_for_this_round' = FALSE]_vars

C5_Witness ==
    /\ pc = "idle" /\ answer_box = BoxError(TRANSCRIPTION_ERROR)
    /\ sttFails = 1
    /\ Len(history) = 3 /\ qa_pairs = 1

\* C6: after a round whose transcription succeeded and whose generation raised,
\* history is the history of the round's start plus one user turn holding the
\* transcript; qa_pairs is unchanged and nothing was reset.
C6_GenerationFailure ==
    (pc = "idle" /\ answer_box = BoxError(LLM_ERROR)) =>
        /\ last_transcript # None
        /\ history = before.history \o
                         <<[role |-> "user", content |-> last_transcript.val]>>
        /\ Len(history) = Len(before.history) + 1
        /\ qa_pairs = before.qa_pairs
        /\ last_response = None

C6_Witness ==
    /\ pc = "idle" /\ answer_box = BoxError(LLM_ERROR)
    /\ qa_pairs = WINDOW_SIZE - 1
    /\ Len(history) = 2 * WINDOW_SIZE

\* C7: the message list handed to the chat call is the system instructions,
\* then the context message exactly when resume_text is non-empty, then the turns
\* of history as they are and in order; no later message has the system role.
C7_MessageLayout ==
    pc = "stream" =>
        LET n == IF resume_text = <<>> THEN 1 ELSE 2 IN
        /\ Len(messages) = n + Len(history)
        /\ messages[1] = [role |-> "system", content |-> <<SYSTEM_PROMPT[2]>>]
        /\ (resume_text # <<>> /\ Len(resume_text) <= MAX_CHARS) =>
               messages[2] = [role |-> "system",
                              content |-> CONTEXT_PREAMBLE \o resume_text]
        /\ \A i \in 1..Len(history) : messages[n + i] = history[i]
        /\ \A i \in (n + 1)..Len(messages) : messages[i].role \in {"user", "assistant"}

C7_Witness ==
    /\ pc = "stream"
    /\ resume_text # <<>>
    /\ Len(history) = 3
    /\ Len(messages) = 5
    /\ history[1].content # history[3].content

\* C8: no step of a run or of a round changes resume_text while the uploads
\* stay what they are, whatever the round's outcome and also at a window reset.
C8_ContextUnchangedByRounds ==
    [][(up1' = up1 /\ up2' = up2) => resume_text' = resume_text]_vars

C8_Witness ==
    /\ pc = "idle"
    /\ okRounds = WINDOW_SIZE /\ history = <<>> /\ qa_pairs = 0
    /\ sttFails > 0 /\ genFails > 0
    /\ resume_text # <<>>
    /\ uploads = 1 /\ passes = 2

\* the text a slot holds now: empty for an absent upload
SlotText(ok, u) == IF u.present THEN extract_pdf_text(ok, u.pdf) ELSE <<>>

\* the labelled texts of the non-empty slots, in slot order, joined by blank lines
LabelledSlots(t1, t2) ==
    CASE t1 = <<>> /\ t2 = <<>> -> <<>>
      [] t1 # <<>> /\ t2 = <<>> -> LABEL_1 \o t1
      [] t1 = <<>> /\ t2 # <<>> -> LABEL_2 \o t2
      [] OTHER -> LABEL_1 \o t1 \o <<"\n", "\n">> \o LABEL_2 \o t2

\* C9: after every completed ingest pass resume_text is the labelled texts of
\* exactly the slots whose present text is non-empty, and so is empty when every
\* slot is absent or empty.
C9_ContextIsCurrentSlots ==
    [][(pc = "idle" /\ ~upload_raises(pdf_ok', up1', up2')) =>
          resume_text' = LabelledSlots(SlotText(pdf_ok', up1'), SlotText(pdf_ok', up2'))]_vars

\* whether pat occurs in s at place i
OccursAt(pat, s, i) ==
    /\ i + Len(pat) - 1 <= Len(s)
    /\ \A j \in 1..Len(pat) : s[i + j - 1] = pat[j]

\* the number of places where pat occurs in s
Occurrences(pat, s) == Cardinality({i \in 1..Len(s) : OccursAt(pat, s, i)})

\* the number of places where label occurs in s with text right after it
Contributions(label, text, s) ==
    Cardinality({i \in 1..Len(s) :
                    /\ OccursAt(label, s, i)
                    /\ SubSeq(s, i + Len(label), i + Len(label) + Len(text) - 1) = text})

\* C10: a run that ingests the uploads of the run before it leaves resume_text
\* as it is; after every run each slot's label occurs at most once in
\* resume_text, and a slot's present non-empty text, with its label, exactly once.
C10_IngestIdempotent ==
    [][pc = "idle" =>
          /\ (up1' = up1 /\ up2' = up2) => resume_text' = resume_text
          /\ Occurrences(LABEL_1, resume_text') <= 1
          /\ Occurrences(LABEL_2, resume_text') <= 1
          /\ (~upload_raises(pdf_ok', up1', up2') /\ SlotText(pdf_ok', up1') # <<>>) =>
                 Contributions(LABEL_1, SlotText(pdf_ok', up1'), resume_text') = 1
          /\ (~upload_raises(pdf_ok', up1', up2') /\ SlotText(pdf_ok', up2') # <<>>) =>
                 Contributions(LABEL_2, SlotText(pdf_ok', up2'), resume_text') = 1]_vars

C10_Witness ==
    /\ pc = "idle"
    /\ uploads = 2 /\ passes = 2
    /\ SlotText(pdf_ok, up1) # <<>> /\ SlotText(pdf_ok, up2) # <<>>
    /\ Contributions(LABEL_1, SlotText(pdf_ok, up1), resume_text) = 1
    /\ Contributions(LABEL_2, SlotText(pdf_ok, up2), resume_text) = 1

\* the clamped context of the prompt: the context message after its preamble
ClampedContext ==
    SubSeq(messages[2].content, Len(CONTEXT_PREAMBLE) + 1, Len(messages[2].content))

\* C11: the context put in the prompt is resume_text itself when that is at most
\* MAX_CHARS long, and otherwise its first MAX_CHARS characters followed by the
\* truncation marker; it is never longer than MAX_CHARS plus the marker, and it
\* carries the appended marker exactly when resume_text was longer than MAX_CHARS.
C11_ClampedContext ==
    (pc = "stream" /\ resume_text # <<>>) =>
        LET out == ClampedContext
            n == Len(TRUNCATION_MARKER)
            marked == /\ Len(out) = MAX_CHARS + n
                      /\ SubSeq(out, MAX_CHARS + 1, MAX_CHARS + n) = TRUNCATION_MARKER
        IN
        /\ messages[2].role = "system"
        /\ Len(resume_text) <= MAX_CHARS => out = resume_text
        /\ Len(resume_text) > MAX_CHARS =>
               /\ SubSeq(out, 1, MAX_CHARS) = SubSeq(resume_text, 1, MAX_CHARS)
               /\ marked
        /\ Len(out) <= MAX_CHARS + n
        /\ marked <=> Len(resume_text) > MAX_CHARS

C11_Witness ==
    /\ pc = "stream"
    /\ Len(resume_text) = MAX_CHARS + 1
    /\ Len(ClampedContext) = MAX_CHARS + Len(TRUNCATION_MARKER)

\* C12: the call of build_messages() leaves history, resume_text and qa_pairs
\* exactly as they were, and the list it returns is not the history list, so
\* changing that list cannot change history.
C12_BuildMessagesReadsOnly ==
    [][(pc = "build" /\ pc' = "stream") =>
          /\ history' = history
          /\ resume_text' = resume_text
          /\ qa_pairs' = qa_pairs
          /\ Len(messages') > Len(history')
          /\ ~aliased']_vars

C12_Witness ==
    /\ pc = "stream"
    /\ resume_text # <<>>
    /\ Len(history) = 4 /\ qa_pairs = 1
    /\ Len(messages) = 6
    /\ ~aliased

Alternates(hist) ==
    /\ Len(hist) % 2 = 0
    /\ \A i \in 1..Len(hist) :
           hist[i].role = IF i % 2 = 1 THEN "user" ELSE "assistant"

\* C13: while no generation has failed, between rounds history is empty or
\* starts with a user turn, ends with an assistant turn, and no two adjacent
\* turns have the same role.
C13_TurnsAlternate ==
    (pc = "idle" /\ genFails = 0) =>
        /\ Alternates(history)
        /\ history # <<>> =>
               /\ history[1].role = "user"
               /\ history[Len(history)].role = "assistant"
        /\ \A i \in 1..(Len(history) - 1) : history[i].role # history[i + 1].role

C13_Witness ==
    /\ pc = "idle"
    /\ genFails = 0
    /\ sttFails = 1
    /\ Len(history) = 6
    /\ Alternates(history)

\* C14: the flag is true exactly when a run with recording in progress came
\* since the latest processing, and the recording block cleared once for them;
\* that clear empties last_transcript and last_response and leaves the flag
\* true; every end of a processing leaves the flag false.
C14_FlagLifecycle ==
    /\ [](/\ cleared_for_this_round <=> rec_events > 0
          /\ rec_clears = IF rec_events > 0 THEN 1 ELSE 0)
    /\ [][rec_clears' > rec_clears =>
              /\ ~cleared_for_this_round
              /\ last_transcript' = None
              /\ last_response' = None
              /\ cleared_for_this_round']_vars
    /\ [][(pc # "idle" /\ pc' = "idle") => ~cleared_for_this_round']_vars

C14_Witness ==
    /\ pc = "idle"
    /\ okRounds = 1 /\ sttFails = 1 /\ genFails = 1
    /\ rec_events = 2
    /\ rec_clears = 1
    /\ cleared_for_this_round
    /\ last_transcript = None

\* C15: a round in progress always comes back to idle; when it ends the
\* transcription was called once and the chat at most once, the chat only with
\* a transcript at hand and never after a failed transcription; a failed call
\* ends the round with its message shown.
C15_RoundsComplete ==
    /\ (pc # "idle") ~> (pc = "idle")
    /\ [][(pc # "idle" /\ pc' = "idle") =>
              /\ stt_calls = 1
              /\ gen_calls <= 1
              /\ gen_calls = 1 => last_transcript # None
              /\ sttFails' > sttFails => gen_calls = 0]_vars
    /\ [][(sttFails' > sttFails \/ genFails' > genFails) =>
              /\ pc' = "idle"
              /\ answer_box' \in {BoxError(TRANSCRIPTION_ERROR), BoxError(LLM_ERROR)}]_vars
    /\ [](stt_calls <= 1 /\ gen_calls <= stt_calls)

C15_Witness ==
    /\ pc = "stream"
    /\ stt_calls = 1 /\ gen_calls = 1
    /\ sttFails = 1 /\ genFails = 1
    /\ stream = <<>>
    /\ full_text # <<>>

\* C16: after a round whose chat call or stream raised, history is what it was
\* when the round started, the transcript is shown and no answer is recorded.
C16_FailedStreamNoMutation ==
    (pc = "idle" /\ answer_box = BoxError(LLM_ERROR)) =>
        /\ history = before.history
        /\ last_transcript # None
        /\ transcript_box = BoxWrite(last_transcript.val)
        /\ last_response = None

RoundOrder ==
    {<<"idle", "stt">>, <<"stt", "build">>, <<"build", "stream">>,
     <<"stream", "window">>, <<"window", "idle">>,
     <<"stt", "idle">>, <<"stream", "idle">>}

\* C17: a round goes from the transcription to the user append, the prompt, the
\* stream and the commit in this order; the messages handed to the chat call are
\* the system instructions, the context if there is one, the turns history held
\* when the round started (dangling user turns included), and last the user turn
\* with the trimmed transcript of this round; no answer of this round is in them.
C17_PromptOfTheRound ==
    /\ [][pc' # pc => <<pc, pc'>> \in RoundOrder]_vars
    /\ [](pc = "build" =>
              history = append_user(before.history, last_transcript.val))
    /\ [](pc = "stream" =>
              LET n == IF resume_text = <<>> THEN 1 ELSE 2
                  last == messages[Len(messages)]
              IN
              /\ Len(messages) = n + Len(before.history) + 1
              /\ messages[1].role = "system"
              /\ n = 2 => messages[2].role = "system"
              /\ SubSeq(messages, n + 1, n + Len(before.history)) = before.history
              /\ last = Turn("user", last_transcript.val)
              /\ last.content \in {Strip(t) : t \in ContentEnv.transcripts}
              /\ history = append_user(before.history, last.content))

C17_Witness ==
    /\ pc = "stream"
    /\ dangling = 1
    /\ qa_pairs = 1
    /\ resume_text # <<>>
    /\ messages[Len(messages)].content = <<"r">>
    /\ messages[Len(messages) - 1].role = "user"
    /\ full_text # <<>>

\* C18: a round starts with last_transcript and last_response empty; a
\* committed round leaves them as the trimmed text the transcription returned
\* and the trimmed whole answer, and the window check keeps them; a failed
\* transcription leaves both empty; a failed generation leaves the trimmed
\* transcript and no answer.
C18_LastValuesOfTheRound ==
    /\ [](pc = "stt" => last_transcript = None /\ last_response = None)
    /\ [](pc = "window" =>
              /\ last_transcript = Some(Strip(heard.val))
              /\ last_response = Some(Strip(full_text)))
    /\ [][(pc = "window" /\ pc' = "idle") =>
              /\ last_transcript' = Some(Strip(heard.val))
              /\ last_response' = Some(Strip(full_text))]_vars
    /\ [][(pc = "stt" /\ pc' = "idle") =>
              last_transcript' = None /\ last_response' = None]_vars
    /\ [][(pc = "stream" /\ pc' = "idle") =>
              /\ last_transcript' = Some(Strip(heard.val))
              /\ last_response' = None]_vars

C18_Witness ==
    /\ pc = "idle"
    /\ okRounds = WINDOW_SIZE
    /\ history = <<>>
    /\ last_transcript = Some(<<"q">>)
    /\ last_response = Some(<<"a">>)

\* C19: between rounds history holds two turns per counted exchange and one per
\* generation failure since the latest window reset; a failed round leaves
\* qa_pairs as it was; history shrinks only in the window check of the 10th
\* counted exchange, which empties it, dangling user turns included.
C19_LengthAccounting ==
    /\ [](pc = "idle" => Len(history) = 2 * qa_pairs + dangling)
    /\ [][(sttFails' > sttFails \/ genFails' > genFails) =>
              qa_pairs' = qa_pairs]_vars
    /\ [][(Len(history') < Len(history) \/ qa_pairs' < qa_pairs) =>
              /\ pc = "window" /\ qa_pairs = WINDOW_SIZE
              /\ history' = <<>> /\ qa_pairs' = 0]_vars
    /\ [][(pc = "window" /\ qa_pairs = WINDOW_SIZE) =>
              history' = <<>> /\ qa_pairs' = 0]_vars

C19_Witness ==
    /\ pc = "idle"
    /\ okRounds = WINDOW_SIZE
    /\ genFails = 2
    /\ dangling = 1
    /\ qa_pairs = 0
    /\ Len(history) = 1

====
